---- MODULE Spec2Model ----
(***************************************************************************)
(* Model of the tool-orchestration loop (MistralClient.run_with_tools) and *)
(* of the deduplicating index store (MistralEmbedClient) of the            *)
(* repository.  One behaviour of Spec is one invocation of run_with_tools; *)
(* one behaviour of StoreSpec is one life of the singleton index store.    *)
(***************************************************************************)
EXTENDS Integers, Sequences, FiniteSets, Bags, TLC

(***************************************************************************)
(* Bounds of the model.                                                    *)
(***************************************************************************)
\* largest max_iterations an invocation is started with
MaxIter == 2
\* most tool calls the model backend requests over one invocation
MaxToolCalls == 3
\* longest batch of chunks handed to one add call
MaxBatch == 2
\* most chunks the index is let to hold (force_add grows it without limit)
MaxIndex == 2
\* largest k a search is made with
MaxK == 2

VARIABLES
    \* ---- run_with_tools ----
    tools,           \* the tool list supplied by the caller (names, in order)
    max_iterations,  \* the max_iterations argument
    pc,              \* position of the invocation
    iteration,       \* rounds completed (the for-loop variable)
    messages,        \* the conversation (local `messages`)
    tool_calls,      \* tool calls of the round being executed
    tci,             \* index in tool_calls of the call handled next
    responseBound,   \* whether the local `response` has been assigned
    modelCalls,      \* calls of client.chat.complete made so far
    offered,         \* what the last model call passed as tools=
    executed,        \* the tool invocations made: call id, whether it raised
    backendFailed,   \* whether a model round-trip has failed
    finalContent,    \* content of the model's message without tool calls
    result,          \* the text returned to the caller, if any
    exc,             \* the exception that left run_with_tools, if any
    \* ---- MistralEmbedClient ----
    vector_store,    \* the FAISS index: None or the chunks it holds
    document_hashes, \* fingerprints of the chunks seen
    max_documents,   \* the configured capacity
    disk_index,      \* the saved index artifact at the path
    disk_meta,       \* the saved metadata sidecar at the path
    store_exc,       \* the exception the last store operation raised, if any
    last_op,         \* the last store operation: its arguments, the list it
                     \* handed to the embedding backend, the list it returned
    saved,           \* the store as the last save_vector_store call found it,
                     \* while no add call and no other writer of the path
                     \* came after that call
    ctx,             \* the add call of each request context: its position
                     \* in lines 104-140 and its local variables
    \* ---- MistralClient.build_tool_spec ----
    func,            \* the callable: its name and its parameters
    tool_spec,       \* the spec returned for it, if any
    \* ---- AITools.search_rag ----
    hits,            \* the documents search_similar returned
    citation         \* the lines of the text returned for them, if any

loopVars == <<tools, max_iterations, pc, iteration, messages, tool_calls, tci,
              responseBound, modelCalls, offered, executed, backendFailed,
              finalContent, result, exc>>
storeVars == <<vector_store, document_hashes, max_documents, disk_index,
               disk_meta, store_exc, last_op, saved, ctx>>
pureVars == <<func, tool_spec, hits, citation>>
vars == <<tools, max_iterations, pc, iteration, messages, tool_calls, tci,
          responseBound, modelCalls, offered, executed, backendFailed,
          finalContent, result, exc,
          vector_store, document_hashes, max_documents, disk_index,
          disk_meta, store_exc, last_op, saved, ctx,
          func, tool_spec, hits, citation>>

(***************************************************************************)
(* Values exchanged with the model backend and the tools.                  *)
(***************************************************************************)
\* a content value as the backend returns it: None, a string, or a list of
\* segments
NoneContent == [kind |-> "none", parts |-> <<>>]
StrContent(s) == [kind |-> "str", parts |-> <<s>>]
ListContent(ps) == [kind |-> "list", parts |-> ps]

\* " ".join(str(chunk) for chunk in content)
RECURSIVE JoinSpaces(_)
JoinSpaces(ps) ==
    IF Len(ps) = 0 THEN ""
    ELSE IF Len(ps) = 1 THEN ps[1]
    ELSE ps[1] \o " " \o JoinSpaces(Tail(ps))

\* FinalText without the `or ""` default: None is stringified
FinalTextNoDefault(content) ==
    IF content.kind = "list" THEN JoinSpaces(content.parts)
    ELSE IF content.kind = "none" THEN "None"
    ELSE content.parts[1]

\* the text run_with_tools returns for a final message's content
FinalText(content) ==
    IF content.kind = "list" THEN JoinSpaces(content.parts)
    ELSE IF content.kind = "none" THEN ""
    ELSE content.parts[1]

Instruction == "instruction"
Sentinel == "Max tool iterations reached"

\* the tool lists a caller supplies
ToolLists == { <<>>, <<"search_rag", "get_current_time">> }

\* argument payloads of a tool call: a structured mapping, or an encoded string
DictArgs == [kind |-> "dict", text |-> "query=q"]
JsonArgs == [kind |-> "str", text |-> "{\"query\": \"q\"}"]
BadArgs == [kind |-> "str", text |-> "{\"query\": "]

\* json.loads on an encoded argument string
JsonLoads(text) ==
    IF text = "{\"query\": \"q\"}" THEN [ok |-> TRUE, value |-> "query=q"]
    ELSE [ok |-> FALSE, value |-> ""]

\* the (name, arguments) pairs the model backend may put in a tool call
CallShapes ==
    { [name |-> "search_rag", arguments |-> DictArgs],
      [name |-> "search_rag", arguments |-> JsonArgs],
      [name |-> "get_current_time", arguments |-> DictArgs],
      [name |-> "get_current_time", arguments |-> BadArgs],
      [name |-> "search_wikipedia", arguments |-> DictArgs] }

\* final contents the model backend may answer with
FinalContents ==
    { NoneContent, StrContent(""), StrContent("answer"),
      ListContent(<<"part1", "part2">>) }

\* what calling a tool may do: return a value or raise an exception
ToolOutcomes(name) ==
    IF name = "search_rag"
    THEN { [raised |-> FALSE, isInt |-> FALSE, text |-> "hits", int |-> 0],
           [raised |-> TRUE, isInt |-> FALSE, text |-> "boom", int |-> 0] }
    ELSE { [raised |-> FALSE, isInt |-> TRUE, text |-> "", int |-> 1200],
           [raised |-> TRUE, isInt |-> FALSE, text |-> "timeout", int |-> 0] }

\* the outcome slot of a call whose tool is never invoked
NotCalled == [raised |-> FALSE, isInt |-> FALSE, text |-> "", int |-> 0]

\* str(result)
Str(v) == IF v.isInt THEN ToString(v.int) ELSE v.text

(***************************************************************************)
(* Messages of the conversation.                                           *)
(***************************************************************************)
UserMessage(content) ==
    [role |-> "user", content |-> StrContent(content), tool_calls |-> <<>>,
     name |-> "", tool_call_id |-> 0]

AssistantMessage(content, tcs) ==
    [role |-> "assistant", content |-> content, tool_calls |-> tcs,
     name |-> "", tool_call_id |-> 0]

ToolMessage(content, name, id) ==
    [role |-> "tool", content |-> StrContent(content), tool_calls |-> <<>>,
     name |-> name, tool_call_id |-> id]

NoResult == [returned |-> FALSE, text |-> ""]
Returned(text) == [returned |-> TRUE, text |-> text]


(***************************************************************************)
(* run_with_tools.                                                         *)
(***************************************************************************)
\* positions of the invocation
Terminated == pc \in {"done", "max_iter", "raised"}

\* the tool calls the backend has issued so far in this invocation; the
\* backend numbers them 1, 2, ... so every id is unique
RECURSIVE Requested(_)
Requested(msgs) ==
    IF Len(msgs) = 0 THEN 0
    ELSE Len(msgs[Len(msgs)].tool_calls) + Requested(SubSeq(msgs, 1, Len(msgs) - 1))

\* the tool-call lists the backend may answer with: 1 .. budget calls, each of
\* one of the shapes, with fresh ids
ToolCallLists(msgs) ==
    LET base == Requested(msgs)
    IN  UNION { { [i \in 1..n |-> [id |-> base + i, name |-> f[i].name,
                                   arguments |-> f[i].arguments]] :
                  f \in [1..n -> CallShapes] } :
                n \in 1..(MaxToolCalls - base) }

\* line 138: arguments as a dict, or json.loads of the encoded string
ParseArguments(arguments) ==
    IF arguments.kind = "dict" THEN [ok |-> TRUE, value |-> arguments.text]
    ELSE JsonLoads(arguments.text)

\* Lookup falling back on the first tool when no name matches
LookupOrFirst(tls, name) == Len(tls) > 0

\* line 139: next((f for f in tools if f.__name__ == name), None)
Lookup(tls, name) == \E i \in 1..Len(tls) : tls[i] = name

\* lines 141-147: the result of one tool call
NotImplementedNotice(name) == "Error: function " \o name \o " not implemented"
\* ErrorNotice dropping the exception text
ErrorNoticeNoText(name, text) == "Error executing " \o name
ErrorNotice(name, text) == "Error executing " \o name \o ": " \o text
CallResult(found, name, outcome) ==
    IF ~found THEN NotImplementedNotice(name)
    ELSE IF outcome.raised THEN ErrorNotice(name, outcome.text)
    ELSE Str(outcome)

\* AppendToolMessage putting the message right after the assistant message
\* instead of at the end
InsertToolMessage(msgs, tc, text) ==
    LET a == CHOOSE j \in 1..Len(msgs) :
                 /\ msgs[j].role = "assistant"
                 /\ \A k \in (j + 1)..Len(msgs) : msgs[k].role # "assistant"
    IN  SubSeq(msgs, 1, a) \o <<ToolMessage(text, tc.name, tc.id)>>
            \o SubSeq(msgs, a + 1, Len(msgs))

\* AppendToolMessage using the position in the round as the call id
AppendToolMessageByIndex(msgs, tc, text) ==
    Append(msgs, ToolMessage(text, tc.name, tci))

\* AppendToolMessage appending the message of the call twice
AppendToolMessageTwice(msgs, tc, text) ==
    msgs \o <<ToolMessage(text, tc.name, tc.id), ToolMessage(text, tc.name, tc.id)>>

\* AppendToolMessage putting the message at the head of the conversation
PrependToolMessage(msgs, tc, text) ==
    <<ToolMessage(text, tc.name, tc.id)>> \o msgs

\* lines 150-155: the tool message of one call, appended to the conversation
AppendToolMessage(msgs, tc, text) ==
    Append(msgs, ToolMessage(text, tc.name, tc.id))

\* a failed model call caught and retried from the same position
ModelFailureRetry(at) == at

\* lines 99-103 and 117-122: chat.complete is called outside any try block, so
\* its exception leaves run_with_tools from whatever position it was at
ModelFailurePc(at) == "raised"
ModelFailureExc(at) == "ModelBackendError"

\* a loop that does not advance its counter
NextIterationStuck(it) == it

\* line 115: for iteration in range(max_iterations)
InRange(it, maxit) == it < maxit
NextIteration(it) == it + 1

\* lines 97-108: no tools, one direct model call without tool specs
DirectCall ==
    /\ pc = "start"
    /\ tools = <<>>
    /\ modelCalls' = modelCalls + 1
    /\ offered' = "none"
    /\ \/ /\ backendFailed' = TRUE
          /\ pc' = ModelFailurePc(pc)
          /\ exc' = ModelFailureExc(pc)
          /\ UNCHANGED <<result, responseBound, finalContent>>
       \/ \E content \in FinalContents :
             /\ responseBound' = TRUE
             /\ finalContent' = content
             /\ result' = Returned(FinalText(content))
             /\ pc' = "done"
             /\ UNCHANGED <<exc, backendFailed>>
    /\ UNCHANGED <<tools, max_iterations, iteration, messages, tool_calls, tci,
                   executed>>
    /\ UNCHANGED <<storeVars, pureVars>>

\* lines 110-115 and 160: build the specs, open the conversation and enter the
\* loop; with an empty range the loop body never runs and line 160 reads the
\* unassigned local `response`
EnterLoop ==
    /\ pc = "start"
    /\ tools # <<>>
    /\ messages' = <<UserMessage(Instruction)>>
    /\ IF InRange(0, max_iterations)
       THEN /\ pc' = "await_model"
            /\ exc' = exc
       ELSE /\ pc' = "raised"
            /\ exc' = "UnboundLocalError"
    /\ UNCHANGED <<tools, max_iterations, iteration, tool_calls, tci,
                   responseBound, modelCalls, offered, executed, backendFailed,
                   finalContent, result>>
    /\ UNCHANGED <<storeVars, pureVars>>

\* lines 117-135: one model round-trip of the loop
ModelRound ==
    /\ pc = "await_model"
    /\ modelCalls' = modelCalls + 1
    /\ offered' = "specs"
    /\ \/ /\ backendFailed' = TRUE
          /\ pc' = ModelFailurePc(pc)
          /\ exc' = ModelFailureExc(pc)
          /\ UNCHANGED <<messages, tool_calls, tci, responseBound, result,
                         finalContent>>
       \/ \E content \in FinalContents :
             /\ responseBound' = TRUE
             /\ finalContent' = content
             /\ result' = Returned(FinalText(content))
             /\ pc' = "done"
             /\ UNCHANGED <<messages, tool_calls, tci, exc, backendFailed>>
       \/ \E tcs \in ToolCallLists(messages) :
             /\ responseBound' = TRUE
             /\ messages' = Append(messages, AssistantMessage(NoneContent, tcs))
             /\ tool_calls' = tcs
             /\ tci' = 1
             /\ pc' = "exec_tools"
             /\ UNCHANGED <<result, exc, backendFailed, finalContent>>
    /\ UNCHANGED <<tools, max_iterations, iteration, executed>>
    /\ UNCHANGED <<storeVars, pureVars>>

\* lines 136-160: handle the next tool call of the round; after the last one
\* the for loop advances, and leaves to line 160 when the range is exhausted
ExecToolCall ==
    /\ pc = "exec_tools"
    /\ tci <= Len(tool_calls)
    /\ LET tc == tool_calls[tci]
           parsed == ParseArguments(tc.arguments)
           found == Lookup(tools, tc.name)
       IN  IF ~parsed.ok
           THEN /\ pc' = "raised"
                /\ exc' = "JSONDecodeError"
                /\ UNCHANGED <<messages, tci, iteration, executed, result>>
           ELSE /\ \E outcome \in (IF found THEN ToolOutcomes(tc.name)
                                            ELSE {NotCalled}) :
                      /\ messages' = AppendToolMessage(messages, tc,
                                         CallResult(found, tc.name, outcome))
                      /\ executed' =
                            IF found
                            THEN Append(executed, [id |-> tc.id,
                                                   raised |-> outcome.raised,
                                                   text |-> outcome.text])
                            ELSE executed
                /\ tci' = tci + 1
                /\ exc' = exc
                /\ IF tci < Len(tool_calls)
                   THEN UNCHANGED <<pc, iteration, result>>
                   ELSE /\ iteration' = NextIteration(iteration)
                        /\ IF InRange(iteration', max_iterations)
                           THEN /\ pc' = "await_model"
                                /\ result' = result
                           ELSE /\ pc' = "max_iter"
                                /\ result' = Returned(Sentinel)
    /\ UNCHANGED <<tools, max_iterations, tool_calls, responseBound, modelCalls,
                   offered, backendFailed, finalContent>>
    /\ UNCHANGED <<storeVars, pureVars>>

(***************************************************************************)
(* MistralEmbedClient: the index store.                                    *)
(***************************************************************************)
\* page_content of the chunks handed to the store
Contents == {"c1", "c2"}

\* line 40: the capacities max_documents is configured with (MAX_DOCUMENTS)
Capacities == {1, 2}

\* line 43-45: _get_document_hash, the md5 hex digest of the content
Hash(content) ==
    CASE content = "c1" -> "md5-c1"
      [] content = "c2" -> "md5-c2"

\* a FAISS index: absent (None, or no artifact on disk) or the chunks embedded
NoIndex == [present |-> FALSE, docs |-> EmptyBag]
Index(docs) == [present |-> TRUE, docs |-> docs]
IndexCount(store) == BagCardinality(store.docs)

\* a variant of the sidecar that is written without the fingerprints
HashlessSidecar(hashes) == [present |-> TRUE, parsable |-> TRUE, hashes |-> {}]
NoSidecar == [present |-> FALSE, parsable |-> TRUE, hashes |-> {}]
Sidecar(hashes) == [present |-> TRUE, parsable |-> TRUE, hashes |-> hashes]
\* a sidecar that json.load cannot parse
UnparsableSidecar == [present |-> TRUE, parsable |-> FALSE, hashes |-> {}]

\* the chunks of a list as the bag FAISS.from_documents embeds
RECURSIVE BagOf(_)
BagOf(texts) ==
    IF Len(texts) = 0 THEN EmptyBag
    ELSE SetToBag({texts[1]}) (+) BagOf(Tail(texts))

\* the batches handed to one add call
Batches == UNION { [1..n -> Contents] : n \in 0..MaxBatch }

\* lines 114-120: the chunks of the batch whose hash is not known yet, first
\* occurrences only, each hash being recorded as its chunk is kept
\* a variant that records the fingerprints and drops no chunk
KeepDuplicates(texts, hashes) ==
    [texts |-> texts, hashes |-> hashes \cup {Hash(texts[i]) : i \in DOMAIN texts}]

RECURSIVE FilterDuplicates(_, _)
FilterDuplicates(texts, hashes) ==
    IF Len(texts) = 0 THEN [texts |-> <<>>, hashes |-> hashes]
    ELSE IF Hash(texts[1]) \in hashes
         THEN FilterDuplicates(Tail(texts), hashes)
         ELSE LET rest == FilterDuplicates(Tail(texts),
                                           hashes \cup {Hash(texts[1])})
              IN  [texts |-> <<texts[1]>> \o rest.texts, hashes |-> rest.hashes]

\* a variant that filters the batch whatever force_add is
AlwaysFiltered(texts, hashes, force_add) == FilterDuplicates(texts, hashes)

\* lines 112-120: the batch after the deduplication, which force_add skips
Survivors(texts, hashes, force_add) ==
    IF force_add
    THEN [texts |-> texts, hashes |-> hashes]
    ELSE FilterDuplicates(texts, hashes)

\* a Python slice texts[:n], n of either sign
SliceTo(texts, n) ==
    IF n >= 0
    THEN SubSeq(texts, 1, IF n < Len(texts) THEN n ELSE Len(texts))
    ELSE SubSeq(texts, 1, IF Len(texts) + n > 0 THEN Len(texts) + n ELSE 0)

\* lines 126-130: the size check, made after the hashes of the batch were
\* recorded
Truncate(texts, hashes, cap) ==
    LET current_size == Cardinality(hashes)
    IN  IF current_size + Len(texts) > cap
        THEN SliceTo(texts, cap - current_size)
        ELSE texts

\* the request contexts that share the singleton store (lines 15-21), and a
\* context that is not inside an add call
Contexts == {1, 2}
IdleContext ==
    [pc |-> "idle", texts |-> <<>>, i |-> 1, unique_texts |-> <<>>,
     kept |-> <<>>, exc |-> "none"]

\* the record of one store operation
Op(op) ==
    [op |-> op, texts |-> <<>>, force_add |-> FALSE, query |-> "", k |-> 0,
     embed_called |-> FALSE, embed |-> <<>>, returned |-> <<>>]
AddOp(texts, force_add, embed_called, embed) ==
    [Op("add") EXCEPT !.texts = texts, !.force_add = force_add,
                      !.embed_called = embed_called, !.embed = embed]
SearchOp(query, k, returned) ==
    [Op("search") EXCEPT !.query = query, !.k = k, !.returned = returned]

NothingSaved == [valid |-> FALSE, vector_store |-> NoIndex, document_hashes |-> {}]

\* lines 104-144: add_embeddings_with_deduplication(texts, force_add), and
\* add_embeddings(texts) for force_add = True.  FAISS.from_documents embeds
\* the chunks through the embedding backend, which may fail, and raises
\* IndexError on an empty list
Add ==
    \E texts \in Batches, force_add \in BOOLEAN, embedOk \in BOOLEAN :
        LET filtered == Survivors(texts, document_hashes, force_add)
            kept == Truncate(filtered.texts, filtered.hashes, max_documents)
        IN  /\ IndexCount(vector_store) + Len(kept) <= MaxIndex
            /\ document_hashes' = filtered.hashes
            /\ IF filtered.texts = <<>>
               THEN /\ embedOk
                    /\ vector_store' = vector_store
                    /\ store_exc' = "none"
                    /\ last_op' = AddOp(texts, force_add, FALSE, <<>>)
               ELSE IF ~vector_store.present
               THEN IF kept = <<>>
                    THEN /\ embedOk
                         /\ vector_store' = vector_store
                         /\ store_exc' = "IndexError"
                         /\ last_op' = AddOp(texts, force_add, TRUE, <<>>)
                    ELSE IF embedOk
                    THEN /\ vector_store' = Index(BagOf(kept))
                         /\ store_exc' = "none"
                         /\ last_op' = AddOp(texts, force_add, TRUE, kept)
                    ELSE /\ vector_store' = vector_store
                         /\ store_exc' = "EmbeddingError"
                         /\ last_op' = AddOp(texts, force_add, TRUE, kept)
               ELSE IF kept = <<>>
                    THEN /\ embedOk
                         /\ vector_store' = vector_store
                         /\ store_exc' = "none"
                         /\ last_op' = AddOp(texts, force_add, FALSE, <<>>)
                    ELSE IF embedOk
                    THEN /\ vector_store' = Index(vector_store.docs (+) BagOf(kept))
                         /\ store_exc' = "none"
                         /\ last_op' = AddOp(texts, force_add, TRUE, kept)
                    ELSE /\ vector_store' = vector_store
                         /\ store_exc' = "EmbeddingError"
                         /\ last_op' = AddOp(texts, force_add, TRUE, kept)
            /\ saved' = NothingSaved
            /\ UNCHANGED <<max_documents, disk_index, disk_meta>>
            /\ UNCHANGED <<loopVars, ctx, pureVars>>

\* a variant of the reset that drops the index and keeps the fingerprints
ResetIndexOnly ==
    /\ vector_store' = NoIndex
    /\ store_exc' = "none"
    /\ last_op' = Op("reset")
    /\ UNCHANGED <<document_hashes, max_documents, disk_index, disk_meta, saved>>
    /\ UNCHANGED <<loopVars, ctx, pureVars>>

\* lines 150-154: reset_vector_store
Reset ==
    /\ vector_store' = NoIndex
    /\ document_hashes' = {}
    /\ store_exc' = "none"
    /\ last_op' = Op("reset")
    /\ UNCHANGED <<max_documents, disk_index, disk_meta, saved>>
    /\ UNCHANGED <<loopVars, ctx, pureVars>>

\* the similarity order of the chunks for a query, nearest first
Queries == {"q1", "q2"}
Nearest(query) == IF query = "q1" THEN <<"c1", "c2">> ELSE <<"c2", "c1">>

\* the chunks of an index, nearest first, each as often as it is embedded
RECURSIVE Ranked(_, _)
Ranked(docs, order) ==
    IF Len(order) = 0 THEN <<>>
    ELSE LET c == order[1]
             n == IF c \in DOMAIN docs THEN docs[c] ELSE 0
         IN  [i \in 1..n |-> c] \o Ranked(docs, Tail(order))

\* a variant that returns every chunk of the index, whatever k is
AllRanked(docs, query, k) == Ranked(docs, Nearest(query))

\* FAISS.similarity_search(query, k): the k nearest chunks, fewer when the
\* index holds fewer
SimilaritySearch(docs, query, k) ==
    LET all == Ranked(docs, Nearest(query))
    IN  SubSeq(all, 1, IF k < Len(all) THEN k ELSE Len(all))

\* lines 179-183: search_similar
SearchSimilar(store, query, k) ==
    IF ~store.present THEN <<>> ELSE SimilaritySearch(store.docs, query, k)

\* the query is embedded through the embedding backend, which may fail, when
\* there is an index to search
Search ==
    \E query \in Queries, k \in 1..MaxK, embedOk \in BOOLEAN :
        /\ IF vector_store.present /\ ~embedOk
           THEN /\ last_op' = SearchOp(query, k, <<>>)
                /\ store_exc' = "EmbeddingError"
           ELSE /\ last_op' = SearchOp(query, k,
                                       SearchSimilar(vector_store, query, k))
                /\ store_exc' = "none"
        /\ UNCHANGED <<vector_store, document_hashes, max_documents, disk_index,
                       disk_meta, saved>>
        /\ UNCHANGED <<loopVars, ctx, pureVars>>

\* lines 185-194: save_vector_store writes the index and the sidecar, and
\* nothing at all when there is no index
Save ==
    /\ IF vector_store.present
       THEN /\ disk_index' = vector_store
            /\ disk_meta' = Sidecar(document_hashes)
       ELSE UNCHANGED <<disk_index, disk_meta>>
    /\ store_exc' = "none"
    /\ last_op' = Op("save")
    /\ saved' = [valid |-> TRUE, vector_store |-> vector_store,
                 document_hashes |-> document_hashes]
    /\ UNCHANGED <<vector_store, document_hashes, max_documents>>
    /\ UNCHANGED <<loopVars, ctx, pureVars>>

\* a variant that keeps the fingerprints of the store when no sidecar is found
SidecarHashesOrOld(meta, hashes) == IF meta.present THEN meta.hashes ELSE hashes

\* lines 201-208: the fingerprints read from the sidecar, none when the
\* sidecar is missing
SidecarHashes(meta, hashes) == IF meta.present THEN meta.hashes ELSE {}

\* lines 196-209: load_vector_store; FAISS.load_local raises when the index
\* artifact is missing, a missing sidecar empties the hash set, and a sidecar
\* that json.load cannot parse raises after the index was assigned
Load ==
    /\ IF ~disk_index.present
       THEN /\ store_exc' = "RuntimeError"
            /\ UNCHANGED <<vector_store, document_hashes>>
       ELSE /\ vector_store' = disk_index
            /\ IF disk_meta.present /\ ~disk_meta.parsable
               THEN /\ store_exc' = "JSONDecodeError"
                    /\ UNCHANGED document_hashes
               ELSE /\ document_hashes' = SidecarHashes(disk_meta, document_hashes)
                    /\ store_exc' = "none"
    /\ last_op' = Op("load")
    /\ UNCHANGED <<max_documents, disk_index, disk_meta, saved>>
    /\ UNCHANGED <<loopVars, ctx, pureVars>>

\* the sidecar at the path is left unparsable, as an interrupted write of
\* lines 190-194 leaves it
CorruptSidecar ==
    /\ disk_index.present
    /\ disk_meta.present
    /\ disk_meta.parsable
    /\ disk_meta' = UnparsableSidecar
    /\ saved' = NothingSaved
    /\ last_op' = Op("corrupt_sidecar")
    /\ store_exc' = "none"
    /\ UNCHANGED <<vector_store, document_hashes, max_documents, disk_index>>
    /\ UNCHANGED <<loopVars, ctx, pureVars>>

\* the values of keep_last_n clear_old_embeddings is called with
KeepCounts == {0, 1}

\* line 173: whether clear_old_embeddings clears the store
ClearsStore(hashes, keep_last_n) == Cardinality(hashes) > keep_last_n

\* lines 171-177: clear_old_embeddings(keep_last_n)
ClearOld ==
    \E keep_last_n \in KeepCounts :
        /\ IF ClearsStore(document_hashes, keep_last_n)
           THEN /\ vector_store' = NoIndex
                /\ document_hashes' = {}
           ELSE UNCHANGED <<vector_store, document_hashes>>
        /\ store_exc' = "none"
        /\ last_op' = [Op("clear_old") EXCEPT !.k = keep_last_n]
        /\ UNCHANGED <<max_documents, disk_index, disk_meta, saved>>
        /\ UNCHANGED <<loopVars, ctx, pureVars>>

\* lines 248-251: an index artifact left without its sidecar, as
\* VectorStoreManager.save_vector_store writes it
DropSidecar ==
    /\ disk_index.present
    /\ disk_meta.present
    /\ disk_meta' = NoSidecar
    /\ saved' = NothingSaved
    /\ last_op' = Op("drop_sidecar")
    /\ store_exc' = "none"
    /\ UNCHANGED <<vector_store, document_hashes, max_documents, disk_index>>
    /\ UNCHANGED <<loopVars, ctx, pureVars>>

\* ---- MistralClient.build_tool_spec ----

\* most parameters of a callable
MaxParams == 2

\* the annotation of a parameter as inspect.signature reports it: a type, or
\* inspect._empty for a parameter without annotation
Annotations == {"int", "float", "str", "bool", "empty"}

\* a parameter: its annotation and whether it has a default
Params == [annotation : Annotations, has_default : BOOLEAN]

\* the callables: a name and the parameters in declaration order, the i-th
\* being named after its position
Funcs ==
    UNION { [name : {"search_rag"}, params : [1..n -> Params]] :
            n \in 0..MaxParams }
ParamName(i) == "p" \o ToString(i)

NoFunc == [name |-> "", params |-> <<>>]
NoSpec == [built |-> FALSE, name |-> "", properties |-> <<>>, required |-> <<>>]

\* a variant of the numeric annotations that takes bool for a number
NumberAnnotationsWithBool == {"int", "float", "bool"}

\* line 58: the annotations classified as number
NumberAnnotations == {"int", "float"}

\* lines 56-59: the type recorded for an annotation
AnnType(ann) == IF ann \in NumberAnnotations THEN "number" ELSE "string"

\* lines 55-62: the required list, the names of the parameters whose default
\* is inspect._empty, in declaration order
RECURSIVE Required(_, _)
Required(params, i) ==
    IF i > Len(params) THEN <<>>
    ELSE (IF params[i].has_default THEN <<>> ELSE <<ParamName(i)>>)
             \o Required(params, i + 1)

\* lines 49-74: build_tool_spec(func); props is a dict, which keeps the
\* parameters in the order they were inserted
BuildToolSpec(f) ==
    [built |-> TRUE,
     name |-> f.name,
     properties |-> [i \in 1..Len(f.params) |->
                        [name |-> ParamName(i),
                         type |-> AnnType(f.params[i].annotation)]],
     required |-> Required(f.params, 1)]

\* build_tool_spec is called on the callable; a second call builds the spec
\* anew
BuildSpec ==
    /\ tool_spec' = BuildToolSpec(func)
    /\ UNCHANGED <<func, hits, citation>>
    /\ UNCHANGED <<loopVars, storeVars>>

\* ---- AITools.search_rag: the text built for the hits ----

\* line 181: search_similar is called with k = 3
MaxHits == 3

\* a hit: the filename and the page of its metadata and its content.  The
\* page stands for str(page), the only form lines 201-232 use besides int()
Filenames == {"A", "B"}
Pages == {"3", "10", "N/A"}
HitContents == {"x", "y"}
Hits == [filename : Filenames, page : Pages, content : HitContents]
HitLists == UNION { [1..n -> Hits] : n \in 0..MaxHits }

\* line 211: str(p).isdigit(), and int(p) for such a page
IsDigit(p) == p \in {"3", "10"}
IntOf(p) == CASE p = "3" -> 3 [] p = "10" -> 10

\* one line of the returned text
Line(kind, text) == [kind |-> kind, text |-> text]

\* line 216: ', '.join(map(str, pages))
RECURSIVE JoinComma(_)
JoinComma(pages) ==
    IF Len(pages) = 0 THEN ""
    ELSE IF Len(pages) = 1 THEN pages[1]
    ELSE pages[1] \o ", " \o JoinComma(Tail(pages))

MinOf(S) == CHOOSE m \in S : \A n \in S : m <= n
MaxOf(S) == CHOOSE m \in S : \A n \in S : n <= m

\* a variant of the page line that gives the range only when every page is
\* numeric
PageInfoAllNumeric(pages) ==
    IF Len(pages) = 1 THEN "Page " \o pages[1]
    ELSE IF \A i \in DOMAIN pages : IsDigit(pages[i])
    THEN LET numeric_pages == {IntOf(pages[i]) : i \in DOMAIN pages}
         IN  "Pages " \o ToString(MinOf(numeric_pages)) \o "-"
                 \o ToString(MaxOf(numeric_pages))
    ELSE "Pages " \o JoinComma(pages)

\* lines 203-218: the page line of a group
PageInfo(pages) ==
    IF Len(pages) = 1 THEN "Page " \o pages[1]
    ELSE LET numeric_pages ==
                 {IntOf(pages[i]) : i \in {j \in DOMAIN pages : IsDigit(pages[j])}}
         IN  IF numeric_pages # {}
             THEN "Pages " \o ToString(MinOf(numeric_pages)) \o "-"
                      \o ToString(MaxOf(numeric_pages))
             ELSE "Pages " \o JoinComma(pages)

\* a variant of the order of the groups: the filenames by last occurrence
RECURSIVE LastSeen(_)
LastSeen(hs) ==
    IF Len(hs) = 0 THEN <<>>
    ELSE LET rest == LastSeen(Tail(hs))
         IN  IF \E i \in DOMAIN rest : rest[i] = hs[1].filename
             THEN rest
             ELSE <<hs[1].filename>> \o rest

\* lines 190-198: the keys of doc_groups, a dict, in the order in which they
\* were inserted
RECURSIVE FirstSeen(_)
FirstSeen(hs) ==
    IF Len(hs) = 0 THEN <<>>
    ELSE LET before == FirstSeen(SubSeq(hs, 1, Len(hs) - 1))
             f == hs[Len(hs)].filename
         IN  IF \E i \in DOMAIN before : before[i] = f
             THEN before
             ELSE Append(before, f)

\* lines 196-198: the hits of one filename, in the order of the hits
GroupOf(hs, f) ==
    LET InGroup(h) == h.filename = f
    IN  SelectSeq(hs, InGroup)

\* lines 225-229: the line of one hit of a group
ContentLine(h, group) ==
    IF Len(group) > 1
    THEN Line("page_content", "  [Page " \o h.page \o "]: " \o h.content)
    ELSE Line("content", "Content: " \o h.content)

\* lines 202-232: the block of one group
Block(source_idx, f, group) ==
    << Line("source", "[Source " \o ToString(source_idx) \o "]"),
       Line("document", "Document: " \o f),
       Line("pages", PageInfo([i \in DOMAIN group |-> group[i].page])) >>
    \o [i \in DOMAIN group |-> ContentLine(group[i], group)]
    \o << Line("blank", "") >>

RECURSIVE Blocks(_, _, _)
Blocks(hs, files, source_idx) ==
    IF source_idx > Len(files) THEN <<>>
    ELSE Block(source_idx, files[source_idx], GroupOf(hs, files[source_idx]))
             \o Blocks(hs, files, source_idx + 1)

\* lines 183-234: the text returned for the hits
FormatHits(hs) ==
    IF hs = <<>>
    THEN << Line("message", "No relevant information found in the RAG system.") >>
    ELSE Blocks(hs, FirstSeen(hs), 1)

\* search_rag formats the hits
Format ==
    /\ citation' = FormatHits(hits)
    /\ UNCHANGED <<func, tool_spec, hits>>
    /\ UNCHANGED <<loopVars, storeVars>>

\* no call of build_tool_spec or of the citation formatter under way
PureIdle ==
    /\ func = NoFunc
    /\ tool_spec = NoSpec
    /\ hits = <<>>
    /\ citation = <<>>

\* lines 38-41: the store as __init__ leaves it
StoreIdle ==
    /\ vector_store = NoIndex
    /\ document_hashes = {}
    /\ disk_index = NoIndex
    /\ disk_meta = NoSidecar
    /\ store_exc = "none"
    /\ last_op = Op("none")
    /\ saved = NothingSaved
    /\ ctx = [t \in Contexts |-> IdleContext]

\* no invocation of run_with_tools under way
LoopIdle ==
    /\ tools = <<>>
    /\ max_iterations = 0
    /\ pc = "start"
    /\ iteration = 0
    /\ messages = <<>>
    /\ tool_calls = <<>>
    /\ tci = 1
    /\ responseBound = FALSE
    /\ modelCalls = 0
    /\ offered = "unset"
    /\ executed = <<>>
    /\ backendFailed = FALSE
    /\ finalContent = NoneContent
    /\ result = NoResult
    /\ exc = "none"

StoreInit ==
    /\ LoopIdle
    /\ StoreIdle
    /\ PureIdle
    /\ max_documents \in Capacities

StoreNext ==
    \/ Add
    \/ Reset
    \/ Search
    \/ Save
    \/ Load
    \/ DropSidecar
    \/ CorruptSidecar
    \/ ClearOld

StoreSpec == StoreInit /\ [][StoreNext]_vars

\* ---- two request contexts inside add_embeddings_with_deduplication ----
\* The singleton (lines 15-21) hands every request context the same object
\* and no statement of lines 104-140 takes a lock, so the calls interleave
\* at every read and write of vector_store and document_hashes.

\* the batches of the concurrent calls
ConcBatches == {b \in Batches : Len(b) <= 2}

\* the position after the loop body for chunk i
AfterChunk(c) ==
    [c EXCEPT !.i = c.i + 1,
              !.pc = IF c.i + 1 > Len(c.texts) THEN "size_check" ELSE "check"]

\* line 104: a request context enters the call with force_add = False
Call(t) ==
    /\ ctx[t].pc = "idle"
    /\ \E texts \in ConcBatches :
          ctx' = [ctx EXCEPT ![t] =
                     [IdleContext EXCEPT !.texts = texts,
                          !.pc = IF texts = <<>> THEN "size_check" ELSE "check"]]
    /\ UNCHANGED <<vector_store, document_hashes, max_documents, disk_index,
                   disk_meta, store_exc, last_op, saved>>
    /\ UNCHANGED <<loopVars, pureVars>>

\* lines 116-117: the hash of chunk i is looked up in document_hashes
CheckHash(t) ==
    /\ ctx[t].pc = "check"
    /\ ctx' = [ctx EXCEPT ![t] =
                  IF Hash(ctx[t].texts[ctx[t].i]) \in document_hashes
                  THEN AfterChunk(ctx[t])
                  ELSE [ctx[t] EXCEPT !.pc = "record"]]
    /\ UNCHANGED <<vector_store, document_hashes, max_documents, disk_index,
                   disk_meta, store_exc, last_op, saved>>
    /\ UNCHANGED <<loopVars, pureVars>>

\* lines 118-119: the chunk is kept and its hash recorded
RecordHash(t) ==
    /\ ctx[t].pc = "record"
    /\ document_hashes' = document_hashes \cup {Hash(ctx[t].texts[ctx[t].i])}
    /\ ctx' = [ctx EXCEPT ![t] =
                  AfterChunk([ctx[t] EXCEPT !.unique_texts =
                                 Append(@, ctx[t].texts[ctx[t].i])])]
    /\ UNCHANGED <<vector_store, max_documents, disk_index, disk_meta,
                   store_exc, last_op, saved>>
    /\ UNCHANGED <<loopVars, pureVars>>

\* lines 122-135: the early return, the size check and the test of
\* vector_store that chooses between creating and merging
SizeCheck(t) ==
    /\ ctx[t].pc = "size_check"
    /\ LET kept == Truncate(ctx[t].unique_texts, document_hashes, max_documents)
       IN  ctx' = [ctx EXCEPT ![t] =
                      [@ EXCEPT !.kept = kept,
                                !.pc = IF ctx[t].unique_texts = <<>> THEN "done"
                                       ELSE IF ~vector_store.present THEN "create"
                                       ELSE IF kept # <<>> THEN "merge"
                                       ELSE "done"]]
    /\ UNCHANGED <<vector_store, document_hashes, max_documents, disk_index,
                   disk_meta, store_exc, last_op, saved>>
    /\ UNCHANGED <<loopVars, pureVars>>

\* line 133: the chunks are embedded and the new index is assigned to
\* vector_store, whatever vector_store holds by then
EmbedCreate(t) ==
    /\ ctx[t].pc = "create"
    /\ \E embedOk \in BOOLEAN :
          IF ctx[t].kept = <<>>
          THEN /\ embedOk
               /\ ctx' = [ctx EXCEPT ![t] = [@ EXCEPT !.pc = "raised",
                                                        !.exc = "IndexError"]]
               /\ UNCHANGED vector_store
          ELSE IF embedOk
          THEN /\ vector_store' = Index(BagOf(ctx[t].kept))
               /\ ctx' = [ctx EXCEPT ![t] = [@ EXCEPT !.pc = "done"]]
          ELSE /\ ctx' = [ctx EXCEPT ![t] = [@ EXCEPT !.pc = "raised",
                                                        !.exc = "EmbeddingError"]]
               /\ UNCHANGED vector_store
    /\ UNCHANGED <<document_hashes, max_documents, disk_index, disk_meta,
                   store_exc, last_op, saved>>
    /\ UNCHANGED <<loopVars, pureVars>>

\* lines 136-137: the chunks are embedded and merged into the index that
\* vector_store holds by then
EmbedMerge(t) ==
    /\ ctx[t].pc = "merge"
    /\ \E embedOk \in BOOLEAN :
          IF embedOk
          THEN /\ vector_store' = Index(vector_store.docs (+) BagOf(ctx[t].kept))
               /\ ctx' = [ctx EXCEPT ![t] = [@ EXCEPT !.pc = "done"]]
          ELSE /\ ctx' = [ctx EXCEPT ![t] = [@ EXCEPT !.pc = "raised",
                                                        !.exc = "EmbeddingError"]]
               /\ UNCHANGED vector_store
    /\ UNCHANGED <<document_hashes, max_documents, disk_index, disk_meta,
                   store_exc, last_op, saved>>
    /\ UNCHANGED <<loopVars, pureVars>>

\* the store as __init__ leaves it, with the default max_documents (line 40)
ConcInit ==
    /\ LoopIdle
    /\ StoreIdle
    /\ PureIdle
    /\ max_documents = 10000

ConcNext ==
    \E t \in Contexts :
        \/ Call(t)
        \/ CheckHash(t)
        \/ RecordHash(t)
        \/ SizeCheck(t)
        \/ EmbedCreate(t)
        \/ EmbedMerge(t)

ConcSpec == ConcInit /\ [][ConcNext]_vars

\* build_tool_spec applied to each callable
ToolSpecInit ==
    /\ LoopIdle
    /\ StoreIdle
    /\ max_documents = 10000
    /\ func \in Funcs
    /\ tool_spec = NoSpec
    /\ hits = <<>>
    /\ citation = <<>>

ToolSpecNext == BuildSpec

ToolSpecSpec == ToolSpecInit /\ [][ToolSpecNext]_vars

\* the formatter applied to each list of hits
CiteInit ==
    /\ LoopIdle
    /\ StoreIdle
    /\ max_documents = 10000
    /\ func = NoFunc
    /\ tool_spec = NoSpec
    /\ hits \in HitLists
    /\ citation = <<>>

CiteNext == Format

CiteSpec == CiteInit /\ [][CiteNext]_vars

Init ==
    /\ tools \in ToolLists
    /\ max_iterations \in 0..MaxIter
    /\ pc = "start"
    /\ iteration = 0
    /\ messages = <<>>
    /\ tool_calls = <<>>
    /\ tci = 1
    /\ responseBound = FALSE
    /\ modelCalls = 0
    /\ offered = "unset"
    /\ executed = <<>>
    /\ backendFailed = FALSE
    /\ finalContent = NoneContent
    /\ result = NoResult
    /\ exc = "none"
    /\ StoreIdle
    /\ PureIdle
    /\ max_documents = 10000

Next == DirectCall \/ EnterLoop \/ ModelRound \/ ExecToolCall

Spec == Init /\ [][Next]_vars


(***************************************************************************)
(* Properties of run_with_tools.                                           *)
(***************************************************************************)
\* indices of the assistant and of the tool messages of the conversation
AssistantIdx == { i \in 1..Len(messages) : messages[i].role = "assistant" }
ToolIdx == { i \in 1..Len(messages) : messages[i].role = "tool" }

\* the most recent assistant message before position i, 0 if there is none
PrevAssistant(i) ==
    LET before == { j \in AssistantIdx : j < i }
    IN  IF before = {} THEN 0
        ELSE CHOOSE j \in before : \A k \in before : k <= j

\* an assistant message whose tool calls all have their tool message
RoundComplete(a) ==
    /\ a + Len(messages[a].tool_calls) <= Len(messages)
    /\ \A k \in 1..Len(messages[a].tool_calls) : messages[a + k].role = "tool"

\* work left, compared lexicographically: rounds, then the model call of the
\* round, then the tool calls of the round
Measure ==
    IF Terminated THEN <<0, 0, 0>>
    ELSE IF pc = "start" THEN <<max_iterations + 1, 0, 0>>
    ELSE IF pc = "await_model" THEN <<max_iterations - iteration, 1, 0>>
    ELSE <<max_iterations - iteration, 0, Len(tool_calls) - tci + 1>>

LexLess(a, b) ==
    \/ a[1] < b[1]
    \/ a[1] = b[1] /\ a[2] < b[2]
    \/ a[1] = b[1] /\ a[2] = b[2] /\ a[3] < b[3]

\* C1 as stated: every invocation with a non-empty tool list ends in Done or
\* in MaxIterationsReached
C1_EndsDoneOrMaxIter ==
    (tools # <<>> /\ ~ENABLED Next) => pc \in {"done", "max_iter"}

\* C1 as amended: run_with_tools always terminates: every step strictly
\* decreases a well-founded measure of the work left, and an invocation that can
\* take no further step has ended in Done, in MaxIterationsReached or with an
\* exception leaving run_with_tools
C1_Terminates ==
    /\ [][LexLess(Measure', Measure)]_vars
    /\ [](\A i \in 1..3 : Measure[i] \in Nat)
    /\ [](~ENABLED Next => Terminated)

C1_Witness ==
    /\ tools # <<>>
    /\ pc = "max_iter"
    /\ modelCalls = 2
    /\ Len(executed) = 3

\* C2: when the model requests at least one tool call in every round, the
\* invocation makes exactly max_iterations model calls and returns the sentinel
C2_AlwaysToolsEndsInSentinel ==
    (/\ tools # <<>>
     /\ ~ENABLED Next
     /\ ~backendFailed
     /\ Cardinality(AssistantIdx) = modelCalls)
    => (modelCalls = max_iterations /\ result = Returned(Sentinel))

\* C3: the i-th tool message after an assistant message answers the i-th tool
\* call of that message, and every tool call of a round has its tool message
\* before the next model call is made
C3_ToolMessagesInCallOrder ==
    /\ \A i \in 2..Len(messages) : messages[i].role \in {"assistant", "tool"}
    /\ \A i \in ToolIdx :
          LET a == PrevAssistant(i)
          IN  /\ a > 0
              /\ i - a <= Len(messages[a].tool_calls)
              /\ messages[i].tool_call_id = messages[a].tool_calls[i - a].id
    /\ \A a \in AssistantIdx :
          (pc = "await_model" \/ \E b \in AssistantIdx : b > a) => RoundComplete(a)

C3_Witness ==
    /\ pc = "await_model"
    /\ Len(messages) = 4
    /\ messages[2].role = "assistant"
    /\ messages[3].role = "tool"
    /\ messages[4].role = "tool"
    /\ messages[3].name = "search_rag"
    /\ messages[4].name = "get_current_time"

\* C4: each tool message carries the id and the function name of one tool call
\* of the most recent assistant message before it
C4_ToolMessageReferencesCall ==
    \A i \in ToolIdx :
        LET a == PrevAssistant(i)
        IN  /\ a > 0
            /\ \E k \in 1..Len(messages[a].tool_calls) :
                   /\ messages[a].tool_calls[k].id = messages[i].tool_call_id
                   /\ messages[a].tool_calls[k].name = messages[i].name

C4_Witness ==
    /\ Cardinality(AssistantIdx) = 2
    /\ Cardinality(ToolIdx) = 3
    /\ messages[Len(messages)].role = "tool"

\* the position the loop is at after a tool call that did not leave it: the
\* next call of the round, else the next model call if rounds remain, else the
\* sentinel return
AdvancedPastCall ==
    /\ exc' = "none"
    /\ IF tci < Len(tool_calls)
       THEN pc' = "exec_tools" /\ tci' = tci + 1 /\ tool_calls' = tool_calls
       ELSE IF iteration + 1 < max_iterations
            THEN pc' = "await_model"
            ELSE pc' = "max_iter"

\* C5: a tool that raises does not end the loop: its call gets the tool message
\* "Error executing <name>: <text>", the loop goes on to the next call of the
\* round, and after the last call to another model call if rounds remain
C5_ToolErrorStaysInLoop ==
    /\ [][(Len(executed') = Len(executed) + 1 /\ executed'[Len(executed')].raised)
           => /\ AdvancedPastCall
              /\ messages' = Append(messages,
                     ToolMessage("Error executing " \o tool_calls[tci].name \o ": "
                                     \o executed'[Len(executed')].text,
                                 tool_calls[tci].name, tool_calls[tci].id))]_vars
    /\ [][pc = "await_model" => modelCalls' = modelCalls + 1]_vars

C5_Witness ==
    /\ modelCalls = 2
    /\ Len(executed) = 2
    /\ executed[1].raised
    /\ messages[Len(messages)].content = StrContent("hits")

\* C6: a tool call whose encoded arguments do not parse gets a tool message
\* with an error result, and run_with_tools goes on without raising
C6_BadArgumentsStayInCall ==
    [][(/\ pc = "exec_tools"
        /\ tci <= Len(tool_calls)
        /\ tool_calls[tci].arguments = BadArgs)
       => /\ AdvancedPastCall
          /\ Len(messages') = Len(messages) + 1
          /\ messages'[Len(messages')].role = "tool"
          /\ messages'[Len(messages')].tool_call_id = tool_calls[tci].id]_vars

C8_BackendFailurePropagates ==
    /\ [](backendFailed =>
             /\ pc = "raised"
             /\ exc = "ModelBackendError"
             /\ ~result.returned
             /\ ~ENABLED Next)
    /\ [][backendFailed' /\ ~backendFailed
            => /\ modelCalls' = modelCalls + 1
               /\ UNCHANGED <<messages, executed, result>>]_vars
    /\ [][backendFailed => UNCHANGED <<modelCalls, executed, messages, result>>]_vars

C8_Witness ==
    /\ backendFailed
    /\ modelCalls = 2
    /\ Len(executed) = 2

\* C9: with an empty tool list there is exactly one model call, made without
\* tool specs; no tool runs, no tool message exists, and the text returned is
\* the model's content, "" when the content is null
C9_NoToolsSingleCall ==
    tools = <<>> =>
        /\ modelCalls <= 1
        /\ offered \in {"unset", "none"}
        /\ executed = <<>>
        /\ ToolIdx = {}
        /\ pc \in {"start", "done", "raised"}
        /\ pc # "start" => modelCalls = 1 /\ offered = "none"
        /\ pc = "done" =>
              /\ result.returned
              /\ finalContent.kind = "none" => result.text = ""
              /\ finalContent.kind = "str" => result.text = finalContent.parts[1]
              /\ finalContent = ListContent(<<"part1", "part2">>)
                    => result.text = "part1 part2"

C9_Witness ==
    /\ tools = <<>>
    /\ pc = "done"
    /\ finalContent.kind = "none"
    /\ result = Returned("")


(***************************************************************************)
(* Properties of the index store.                                          *)
(***************************************************************************)
\* C10: after any sequence of add, reset, persist and load operations that
\* returned normally, the fingerprint set is never larger than the number of
\* chunks embedded in the index
C10_HashesNeverExceedIndex ==
    store_exc = "none" => Cardinality(document_hashes) <= IndexCount(vector_store)


\* C11: after add operations with deduplication the fingerprint set holds
\* at most max_documents entries
C11_HashesWithinCapacity ==
    (last_op.op = "add" /\ ~last_op.force_add /\ store_exc = "none")
        => Cardinality(document_hashes) <= max_documents

\* the chunks of a list, as a set
Range(texts) == {texts[i] : i \in DOMAIN texts}

\* C12: an add call with deduplication that directly follows an add call with
\* deduplication of the same set of chunks changes neither the fingerprint
\* set nor the index and hands nothing to the embedding backend
C12_SecondAddChangesNothing ==
    [][(/\ last_op.op = "add" /\ ~last_op.force_add
        /\ last_op'.op = "add" /\ ~last_op'.force_add
        /\ Range(last_op'.texts) = Range(last_op.texts))
       => (/\ document_hashes' = document_hashes
           /\ vector_store' = vector_store
           /\ ~last_op'.embed_called
           /\ store_exc' = "none")]_vars
\* an add call of two chunks that are both embedded already handed nothing
\* to the embedding backend
C12_Witness ==
    /\ last_op.op = "add" /\ ~last_op.force_add
    /\ Range(last_op.texts) = {"c1", "c2"}
    /\ ~last_op.embed_called
    /\ vector_store = Index(BagOf(<<"c1", "c2">>))
    /\ document_hashes = {Hash("c1"), Hash("c2")}

\* the searches two stores are compared on
SameSearchResults(a, b) ==
    \A query \in Queries, k \in 1..MaxK :
        SearchSimilar(a, query, k) = SearchSimilar(b, query, k)

\* what a load that follows a save reproduces of the saved store
LoadReproducesSaved ==
    /\ store_exc = "none"
    /\ document_hashes = saved.document_hashes
    /\ SameSearchResults(vector_store, saved.vector_store)

\* C13 as stated: a load that follows a save, into the same store or into
\* one that was reset, reproduces the fingerprint set and the search results
\* of the saved store, whatever that store held, nothing included
C13_SaveLoadRoundTrip ==
    (last_op.op = "load" /\ saved.valid) => LoadReproducesSaved

\* C13: a load that follows a save of a store that has an index, into the
\* same store or into one that was reset, reproduces the index, the
\* fingerprint set and the search results of the saved store
C13_IndexedSaveLoadRoundTrip ==
    (last_op.op = "load" /\ saved.valid /\ saved.vector_store.present)
        => (vector_store = saved.vector_store /\ LoadReproducesSaved)
\* a store of two chunks and two fingerprints was saved and loaded again
C13_Witness ==
    /\ last_op.op = "load" /\ saved.valid
    /\ saved.vector_store = Index(BagOf(<<"c1", "c2">>))
    /\ saved.document_hashes = {Hash("c1"), Hash("c2")}
    /\ vector_store = saved.vector_store
    /\ document_hashes = saved.document_hashes

\* C14: a search on a store without index returns the empty list and raises
\* nothing, a search that returns from a store with an index returns at most
\* k chunks, and no search changes the index or the fingerprint set
C14_SearchReadsOnly ==
    [][last_op'.op = "search"
       => (/\ ~vector_store.present
                => (last_op'.returned = <<>> /\ store_exc' = "none")
           /\ Len(last_op'.returned) <= last_op'.k
           /\ vector_store' = vector_store
           /\ document_hashes' = document_hashes)]_vars
\* a search with k = 1 on an index of two chunks returned one chunk
C14_Witness ==
    /\ last_op.op = "search" /\ last_op.k = 1 /\ store_exc = "none"
    /\ Len(last_op.returned) = 1
    /\ IndexCount(vector_store) = 2

\* C15: a load that finds the index artifact and no sidecar raises nothing,
\* replaces the index by the loaded one and empties the fingerprint set
C15_LoadWithoutSidecar ==
    [][(last_op'.op = "load" /\ disk_index.present /\ ~disk_meta.present)
       => (/\ store_exc' = "none"
           /\ vector_store' = disk_index
           /\ document_hashes' = {})]_vars
\* a load found the index artifact without its sidecar
C15_Witness ==
    /\ last_op.op = "load" /\ store_exc = "none"
    /\ disk_index.present /\ ~disk_meta.present
    /\ vector_store = disk_index
    /\ document_hashes = {}

\* the fingerprints of the chunks of a list
HashesOf(texts) == {Hash(texts[i]) : i \in DOMAIN texts}

\* C16: a reset leaves no index and no fingerprint, whatever the store held;
\* the search that follows it returns the empty list, and the add call with
\* deduplication that follows it skips no chunk as a duplicate: it records
\* the fingerprint of every chunk of its batch and reaches the embedding call
C16_ResetEmptiesStore ==
    [][/\ last_op'.op = "reset"
          => (vector_store' = NoIndex /\ document_hashes' = {}
              /\ store_exc' = "none")
       /\ (last_op.op = "reset" /\ last_op'.op = "search")
          => (last_op'.returned = <<>> /\ store_exc' = "none")
       /\ (last_op.op = "reset" /\ last_op'.op = "add" /\ ~last_op'.force_add)
          => (/\ document_hashes' = HashesOf(last_op'.texts)
              /\ last_op'.texts # <<>> => last_op'.embed_called)]_vars
\* a store that was saved with two chunks and two fingerprints is empty
\* after a reset
C16_Witness ==
    /\ last_op.op = "reset"
    /\ saved.valid /\ IndexCount(saved.vector_store) = 2
    /\ Cardinality(saved.document_hashes) = 2
    /\ vector_store = NoIndex /\ document_hashes = {}

\* C17: an add call that ends with no chunk left to embed leaves the index
\* as it was, does not reach the embedding call and raises nothing
C17_NothingToEmbedIsNoOp ==
    [][(last_op'.op = "add" /\ last_op'.embed = <<>>)
       => (/\ vector_store' = vector_store
           /\ ~last_op'.embed_called
           /\ store_exc' = "none")]_vars

\* C18 as stated: an add call with force_add = True that returns leaves the
\* fingerprint set unchanged and embeds every chunk of its batch
C18_ForceAddEmbedsAll ==
    [][(last_op'.op = "add" /\ last_op'.force_add /\ store_exc' = "none")
       => (/\ document_hashes' = document_hashes
           /\ vector_store'.docs = vector_store.docs (+) BagOf(last_op'.texts))]_vars

\* C18: an add call with force_add = True leaves the fingerprint set
\* unchanged; when the fingerprint count plus the batch length is within
\* max_documents and the call returns, every chunk of the batch is embedded,
\* chunks that are in the index already included; otherwise the chunks
\* handed to the embedding call are the batch cut by the size check
C18_ForceAddWithinCapacity ==
    [][(last_op'.op = "add" /\ last_op'.force_add)
       => (/\ document_hashes' = document_hashes
           /\ (/\ Cardinality(document_hashes) + Len(last_op'.texts)
                      <= max_documents
               /\ store_exc' = "none")
              => vector_store'.docs
                    = vector_store.docs (+) BagOf(last_op'.texts)
           /\ Cardinality(document_hashes) + Len(last_op'.texts)
                  > max_documents
              => last_op'.embed
                    = SliceTo(last_op'.texts,
                              max_documents - Cardinality(document_hashes)))]_vars
\* a chunk that the index held already was embedded again by a forced add
C18_Witness ==
    /\ last_op.op = "add" /\ last_op.force_add /\ store_exc = "none"
    /\ last_op.texts = <<"c1">> /\ last_op.embed = <<"c1">>
    /\ vector_store = Index(BagOf(<<"c1", "c1">>))
    /\ document_hashes = {Hash("c1")}

\* both concurrent add calls have returned without raising
BothReturned == \A t \in Contexts : ctx[t].pc = "done"

\* an add call with deduplication run alone on a store, its embedding
\* succeeding
AddAlone(store, texts) ==
    LET filtered == FilterDuplicates(texts, store.document_hashes)
        kept == Truncate(filtered.texts, filtered.hashes, max_documents)
    IN  [document_hashes |-> filtered.hashes,
         vector_store |-> IF kept = <<>> THEN store.vector_store
                          ELSE Index(store.vector_store.docs (+) BagOf(kept))]

\* the stores that the two batches leave when the calls run one after the
\* other on the empty store, in either order
SequentialOutcomes ==
    LET empty == [document_hashes |-> {}, vector_store |-> NoIndex]
    IN  {AddAlone(AddAlone(empty, ctx[1].texts), ctx[2].texts),
         AddAlone(AddAlone(empty, ctx[2].texts), ctx[1].texts)}

\* C19: when two concurrent add calls with deduplication have both returned,
\* the store is one that the two calls leave when run one after the other:
\* every chunk of either batch is in the index once, and there are as many
\* fingerprints as chunks embedded
C19_ConcurrentAddsSerialized ==
    BothReturned
        => (/\ [document_hashes |-> document_hashes,
                vector_store |-> vector_store] \in SequentialOutcomes
            /\ \A t \in Contexts : \A j \in DOMAIN ctx[t].texts :
                   CopiesIn(ctx[t].texts[j], vector_store.docs) = 1
            /\ Cardinality(document_hashes) = IndexCount(vector_store))

\* the conversation from position i on consists of complete rounds: an
\* assistant message with at least one tool call, then the tool message of
\* each of its calls, in order, and nothing else before the next round
RECURSIVE CompleteRounds(_)
CompleteRounds(i) ==
    IF i > Len(messages) THEN TRUE
    ELSE LET n == Len(messages[i].tool_calls)
         IN  /\ messages[i].role = "assistant"
             /\ n >= 1
             /\ i + n <= Len(messages)
             /\ \A j \in 1..n :
                    /\ messages[i + j].role = "tool"
                    /\ messages[i + j].tool_call_id = messages[i].tool_calls[j].id
             /\ CompleteRounds(i + n + 1)

\* C20: whenever the loop is about to call the model, the conversation is
\* the user message followed by complete rounds only
C20_ModelCalledOnCompleteRounds ==
    (tools # <<>> /\ pc = "await_model")
        => (/\ Len(messages) >= 1
            /\ messages[1] = UserMessage(Instruction)
            /\ CompleteRounds(2))
\* the model is called again after a complete round of three tool calls
C20_Witness ==
    /\ tools # <<>> /\ pc = "await_model" /\ modelCalls = 1
    /\ Len(messages) = 5
    /\ Len(messages[2].tool_calls) = 3
    /\ \A j \in 3..5 : messages[j].role = "tool"

\* a is b or a beginning of b
IsPrefix(a, b) == Len(a) <= Len(b) /\ SubSeq(b, 1, Len(a)) = a

\* C21: every step of an invocation leaves the conversation as it is or
\* extends it at the end, and a conversation that has a message starts with
\* the user message holding the instruction
C21_ConversationAppendOnly ==
    [][/\ IsPrefix(messages, messages')
       /\ messages' # <<>> => messages'[1] = UserMessage(Instruction)]_vars
\* a round is under way: the assistant message and the tool message of its
\* first call were appended after the user message
C21_Witness ==
    /\ pc = "exec_tools" /\ tci = 2
    /\ Len(messages) = 3
    /\ messages[1] = UserMessage(Instruction)
    /\ messages[2].role = "assistant"
    /\ messages[3].role = "tool"

\* the positions of the parameters of the callable without a default
WithoutDefault == {i \in DOMAIN func.params : ~func.params[i].has_default}

\* C22: the spec built for a callable has one property per parameter, in
\* declaration order, typed number exactly for the parameters annotated int
\* or float and string for the others, and its required list holds exactly
\* the parameters without a default, each once
C22_ToolSpecShape ==
    tool_spec.built
        => (/\ Len(tool_spec.properties) = Len(func.params)
            /\ \A i \in DOMAIN func.params :
                  /\ tool_spec.properties[i].name = ParamName(i)
                  /\ tool_spec.properties[i].type \in {"number", "string"}
                  /\ tool_spec.properties[i].type = "number"
                        <=> func.params[i].annotation \in {"int", "float"}
            /\ Len(tool_spec.required) = Cardinality(WithoutDefault)
            /\ {tool_spec.required[j] : j \in DOMAIN tool_spec.required}
                  = {ParamName(i) : i \in WithoutDefault})
\* the spec of a callable with an int parameter without default and a bool
\* parameter with a default
C22_Witness ==
    /\ tool_spec.built
    /\ Len(func.params) = 2
    /\ func.params[1] = [annotation |-> "int", has_default |-> FALSE]
    /\ func.params[2] = [annotation |-> "bool", has_default |-> TRUE]
    /\ tool_spec.required = <<"p1">>
    /\ tool_spec.properties[1].type = "number"
    /\ tool_spec.properties[2].type = "string"

\* the lines of one kind of the returned text, in order
LinesOf(kind) ==
    LET OfKind(l) == l.kind = kind
    IN  SelectSeq(citation, OfKind)

\* the pages of the hits of a filename, in the order of the hits
PagesOf(f) ==
    LET group == GroupOf(hits, f)
    IN  [i \in DOMAIN group |-> group[i].page]

\* C23: the page line of each group is "Page P" for one page, the range
\* "Pages MIN-MAX" for several pages that are all numeric, and the
\* comma-joined raw pages as soon as one page is not numeric
C23_PageLineAsSpecified ==
    (hits # <<>> /\ citation # <<>>)
        => \A i \in DOMAIN FirstSeen(hits) :
               /\ i <= Len(LinesOf("pages"))
               /\ LinesOf("pages")[i].text
                     = PageInfoAllNumeric(PagesOf(FirstSeen(hits)[i]))

\* the filenames of the hits, and the first hit of each
HitFiles == {hits[k].filename : k \in DOMAIN hits}
FirstHit(f) ==
    CHOOSE k \in DOMAIN hits :
        hits[k].filename = f /\ \A j \in 1..(k - 1) : hits[j].filename # f

\* the position of the i-th "[Source ...]" line and of the blank line that
\* ends its block
SourcePos(i) ==
    CHOOSE p \in DOMAIN citation :
        /\ citation[p].kind = "source"
        /\ Cardinality({q \in 1..p : citation[q].kind = "source"}) = i
BlockEnd(i) ==
    CHOOSE p \in DOMAIN citation :
        /\ p > SourcePos(i)
        /\ citation[p].kind = "blank"
        /\ \A q \in (SourcePos(i) + 1)..(p - 1) : citation[q].kind # "blank"

\* the filename named by the "Document:" line of the i-th block
DocFile(i) ==
    CHOOSE f \in Filenames : citation[SourcePos(i) + 1].text = "Document: " \o f

\* the lines the hits of a filename are to be rendered as
HitLines(f) ==
    LET OfFile(h) == h.filename = f
        group == SelectSeq(hits, OfFile)
    IN  [k \in DOMAIN group |->
            IF Len(group) = 1
            THEN [kind |-> "content", text |-> "Content: " \o group[k].content]
            ELSE [kind |-> "page_content",
                  text |-> "  [Page " \o group[k].page \o "]: "
                               \o group[k].content]]

\* C24: the text has one block per filename of the hits, numbered from 1
\* without gaps, in the order in which the filenames first occur; between its
\* three heading lines and its closing blank line a block holds the hits of
\* its filename, all of them, in their order, as one "Content:" line for a
\* single hit and as one "[Page P]:" line per hit otherwise; the text holds
\* nothing else
C24_OneBlockPerFilename ==
    (hits # <<>> /\ citation # <<>>)
        => LET n == Cardinality(HitFiles)
           IN  /\ Len(LinesOf("source")) = n
               /\ Len(LinesOf("blank")) = n
               /\ Len(citation) = 4 * n + Len(hits)
               /\ \A i \in 1..n :
                     /\ citation[SourcePos(i)].text
                           = "[Source " \o ToString(i) \o "]"
                     /\ citation[SourcePos(i) + 1].kind = "document"
                     /\ \E f \in HitFiles :
                           citation[SourcePos(i) + 1].text = "Document: " \o f
                     /\ citation[SourcePos(i) + 2].kind = "pages"
                     /\ SubSeq(citation, SourcePos(i) + 3, BlockEnd(i) - 1)
                           = HitLines(DocFile(i))
               /\ \A i, j \in 1..n :
                     i < j => FirstHit(DocFile(i)) < FirstHit(DocFile(j))
\* three hits of two files, the file of the first and the third hit forming
\* the first block
C24_Witness ==
    /\ Len(hits) = 3
    /\ hits[1].filename = "B" /\ hits[2].filename = "A" /\ hits[3].filename = "B"
    /\ Len(citation) = 11
    /\ citation[2].text = "Document: B"
    /\ citation[4].kind = "page_content"
    /\ citation[5].kind = "page_content"
    /\ citation[8].text = "Document: A"
    /\ citation[10].kind = "content"

\* C25: an add call with deduplication whose batch fits, the fingerprint
\* count before the call plus the chunks of the batch that are no duplicates
\* being within max_documents, embeds every such chunk, unless the embedding
\* backend fails
C25_FittingBatchFullyEmbedded ==
    [][LET new == FilterDuplicates(last_op'.texts, document_hashes).texts
       IN  (/\ last_op'.op = "add" /\ ~last_op'.force_add
            /\ Cardinality(document_hashes) + Len(new) <= max_documents
            /\ store_exc' # "EmbeddingError")
           => vector_store'.docs = vector_store.docs (+) BagOf(new)]_vars

\* C26: the index never holds more chunks than max_documents
C26_IndexWithinCapacity ==
    IndexCount(vector_store) <= max_documents

\* C27: clear_old_embeddings(keep_last_n) on a store of more than keep_last_n
\* documents leaves keep_last_n fingerprints and as many chunks in the index,
\* and on a store of at most keep_last_n documents changes nothing
C27_ClearKeepsLastN ==
    [][last_op'.op = "clear_old"
       => IF Cardinality(document_hashes) > last_op'.k
          THEN /\ Cardinality(document_hashes') = last_op'.k
               /\ document_hashes' \subseteq document_hashes
               /\ IndexCount(vector_store') <= IndexCount(vector_store)
               /\ last_op'.k > 0 /\ vector_store.present
                     => vector_store'.present
          ELSE /\ document_hashes' = document_hashes
               /\ vector_store' = vector_store]_vars

\* C28: an add call with deduplication whose embedding step fails leaves the
\* fingerprint set and the index as they were before the call
C28_FailedAddLeavesStore ==
    [][(/\ last_op'.op = "add" /\ ~last_op'.force_add
        /\ store_exc' = "EmbeddingError")
       => (/\ document_hashes' = document_hashes
           /\ vector_store' = vector_store)]_vars

\* C29: a load that returns has taken the index and the fingerprint set from
\* the path, the set being empty for a missing sidecar, and a load that
\* raises has changed neither the index nor the fingerprint set
C29_LoadAllOrNothing ==
    [][last_op'.op = "load"
       => IF store_exc' = "none"
          THEN /\ vector_store' = disk_index
               /\ document_hashes'
                     = (IF disk_meta.present THEN disk_meta.hashes ELSE {})
          ELSE /\ vector_store' = vector_store
               /\ document_hashes' = document_hashes]_vars

\* C30: an invocation with tools makes at most max_iterations model calls,
\* and with max_iterations = 0 it ends by returning the sentinel, having
\* called the model not at all and raised nothing
C30_ZeroIterationsReturnsSentinel ==
    tools # <<>>
        => (/\ modelCalls <= max_iterations
            /\ (max_iterations = 0 /\ pc # "start")
                  => (/\ pc = "max_iter"
                      /\ exc = "none"
                      /\ result = Returned(Sentinel)))

====
